---- MODULE Spec2Model ----
(***************************************************************************)
(* Model of the lila-player playback engine, the React hook                *)
(* useAudioProcessor (hooks/use-audio-processor.ts, latest revision with   *)
(* the Linux <audio> bridge).                                              *)
(*                                                                         *)
(* React state is the set of values the last render committed; every       *)
(* handler runs against the closure of that render and the render (with    *)
(* its effects) follows the handler in the same step.  An async handler    *)
(* that reaches an `await` keeps the closure it was called with and        *)
(* continues in a later step.                                              *)
(*                                                                         *)
(* Units: time in seconds, positions and durations in 1/100 s, rates in    *)
(* 1/100 (85 = 0.85), progress fractions in 1/1000 (1000 = 1.0), volumes   *)
(* and levels in percent as in the settings object.                        *)
(***************************************************************************)
EXTENDS Integers, Sequences, FiniteSets, TLC

\* ---------------------------------------------------------------- bounds
MaxTime == 2          \* context.currentTime is followed up to this value
MaxUnits == 2         \* source units created in one run
MaxPending == 2       \* handler invocations suspended on context.resume()
MaxSuspends == 1      \* times the user agent suspends the context in one run
MaxFrames == 21       \* frames of a buffer given to the offline render alone
MaxSubscribers == 2   \* callers of onProgressUpdate in one run
MaxWavFrames == 2     \* frames of a buffer whose samples are chosen freely

\* ------------------------------------------------------------ input sets
Files == {1, 2}                       \* user-selectable audio files
Rates == {85, 100}                    \* speed slider positions used
RatesOutOfRange == {50, 150}          \* pointer positions beyond the ends of the speed slider
Volumes == {85, 110}                  \* volume slider positions used
ReverbLevels == {40, 100}             \* reverb slider positions used
VinylVolumes == {0, 50}               \* vinyl slider positions used
Clicks == {0, 500, 1000}              \* waveform click fractions used
OutOfRange == {-500, 1500}            \* x / canvas.width outside the canvas
SliderRates == {65 + 5 * i : i \in 0..14}   \* the speed slider: 0.65 to 1.35 by 0.05
SampleRates == {8000, 44100}          \* sample rates of the buffers rendered alone
LoudSamples == -3..3                  \* decoded samples in halves, from -1.5 to 1.5

\* What the environment does in one run.  A run draws one of these; they
\* bound how many independent sources of nondeterminism are combined.
\*   files: the files the user picks from      decodeFails: a decode may reject
\*   uaSuspends: the user agent may suspend the context
\*   sliders: the settings the user changes
\*   rates: the positions the pointer takes on the speed slider
\*   clicks: the waveform fractions the user clicks
\*   impulse: whether the impulse response has loaded before the first request
\*   export: the user presses the save button
\*   subscribes: components subscribe to and unsubscribe from progress events
Envs ==
  { [files |-> {2}, decodeFails |-> FALSE, uaSuspends |-> FALSE,
     rates |-> Rates, sliders |-> {"playbackRate"},
     clicks |-> {500}, impulse |-> "loaded",
     export |-> FALSE, subscribes |-> FALSE],
    [files |-> {1}, decodeFails |-> FALSE, uaSuspends |-> FALSE,
     rates |-> {}, sliders |-> {"isLooping"},
     clicks |-> Clicks, impulse |-> "loaded",
     export |-> FALSE, subscribes |-> FALSE],
    [files |-> {1}, decodeFails |-> FALSE, uaSuspends |-> TRUE,
     rates |-> {}, sliders |-> {"vinylVolume"},
     clicks |-> {500}, impulse |-> "loaded",
     export |-> FALSE, subscribes |-> FALSE],
    [files |-> {1, 2}, decodeFails |-> TRUE, uaSuspends |-> FALSE,
     rates |-> {}, sliders |-> {},
     clicks |-> {500}, impulse |-> "loaded",
     export |-> FALSE, subscribes |-> FALSE],
    [files |-> {1}, decodeFails |-> FALSE, uaSuspends |-> FALSE,
     rates |-> {}, sliders |-> {"volume", "reverbLevel"},
     clicks |-> {500} \cup OutOfRange, impulse |-> "loaded",
     export |-> FALSE, subscribes |-> FALSE],
    [files |-> {1}, decodeFails |-> FALSE, uaSuspends |-> FALSE,
     rates |-> {}, sliders |-> {},
     clicks |-> {500}, impulse |-> "pending",
     export |-> TRUE, subscribes |-> FALSE],
    [files |-> {1}, decodeFails |-> FALSE, uaSuspends |-> FALSE,
     rates |-> {}, sliders |-> {"volume"},
     clicks |-> {500}, impulse |-> "loaded",
     export |-> TRUE, subscribes |-> FALSE],
    [files |-> {1}, decodeFails |-> FALSE, uaSuspends |-> FALSE,
     rates |-> {}, sliders |-> {},
     clicks |-> {500}, impulse |-> "loaded",
     export |-> FALSE, subscribes |-> TRUE],
    [files |-> {1}, decodeFails |-> FALSE, uaSuspends |-> FALSE,
     rates |-> RatesOutOfRange, sliders |-> {"playbackRate"},
     clicks |-> {}, impulse |-> "loaded",
     export |-> FALSE, subscribes |-> FALSE] }

PScale == 1000                        \* progress fractions are n/PScale
Epsilon == 1                          \* 0.001 in 1/PScale

\* decodedBuffer.duration of each file, in 1/100 s
Duration(f) == IF f = 1 THEN 100 ELSE 150

Min(a, b) == IF a < b THEN a ELSE b
Max(a, b) == IF a > b THEN a ELSE b
Abs(a) == IF a < 0 THEN 0 - a ELSE a

VARIABLES
  \* React state of useAudioProcessor
  sourceNode,          \* 0 = null, else the id of an AudioBufferSourceNode
  audioBuffer,         \* 0 = null, else the file the buffer was decoded from
  filename,            \* 0 = null, else the file
  isPlaying,
  progress,
  settings,
  isSaving,
  isWaveformLoading,
  \* refs
  durationRef,
  audioPositionRef,
  lastFrameTimeRef,
  animationFrameRef,   \* TRUE = holds a request id, FALSE = null
  playbackRateRef,
  linuxAudioRef,       \* the <audio> element of the Linux path
  \* host: requestAnimationFrame
  rafScheduled,        \* a frame callback is queued
  tickCl,              \* the closure of the queued updateProgress callback
  \* host: Web Audio
  isLinux,             \* IS_LINUX
  ctxState,            \* context.state
  now,                 \* context.currentTime
  units,               \* the AudioBufferSourceNodes
  endedEvt,            \* units whose 'ended' event is queued
  gainValue,           \* nodes.gain.gain.value
  reverbGain,          \* nodes.reverbGain.gain.value
  dryGain,             \* nodes.dryGain.gain.value
  impulse,             \* the impulse response load: "pending", "loaded"
                       \* (convolver.buffer is set) or "failed"
  \* suspended handler invocations
  resumeQ,             \* awaiting context.resume(), in call order
  decodes,             \* files whose decodeAudioData is pending
  elPlayQ,             \* start times of the pending <audio>.play() promises
  \* environment
  env,                 \* what the environment does in this run, one of Envs
  suspends,            \* times the user agent has suspended the context
  requested,           \* the file of the last load request, 0 = none
  \* observation
  lastOp,              \* the operation of the last step, its input, and
                       \* whether it was issued while playing
  emitted,             \* detail of the progressupdate event of the last step, -1 = none
  delivered,           \* the subscribers whose callback ran in the last step
  subscribed,          \* callers of onProgressUpdate that have not called
                       \* the unsubscribe function they were given
  \* progressEmitter
  listeners,           \* the handlers registered on progressEmitter.current
  \* host: the vinyl overlay of useVinylSound
  vinyl,               \* the <audio> element of the overlay, and whether a
                       \* startVinyl() awaits context.resume()
  \* export
  saveJob,             \* the handleSave invocation awaiting startRendering()
  exported,            \* the last file handed to the download anchor
  offlineRun           \* an offline render and serialization taken alone

vars == <<sourceNode, audioBuffer, filename, isPlaying, progress, settings,
          isSaving, isWaveformLoading, durationRef, audioPositionRef,
          lastFrameTimeRef, animationFrameRef, playbackRateRef, linuxAudioRef,
          rafScheduled, tickCl, isLinux, ctxState, now, units, endedEvt,
          gainValue, reverbGain, dryGain, impulse, resumeQ, decodes, elPlayQ,
          env, suspends, requested, lastOp, emitted, saveJob, exported,
          offlineRun, vinyl, delivered, subscribed, listeners>>

\* The whole state as one record, so that the handlers compose as functions.
Cur ==
  [sourceNode |-> sourceNode, audioBuffer |-> audioBuffer, filename |-> filename,
   isPlaying |-> isPlaying, progress |-> progress, settings |-> settings,
   isSaving |-> isSaving, isWaveformLoading |-> isWaveformLoading,
   durationRef |-> durationRef, audioPositionRef |-> audioPositionRef,
   lastFrameTimeRef |-> lastFrameTimeRef, animationFrameRef |-> animationFrameRef,
   playbackRateRef |-> playbackRateRef, linuxAudioRef |-> linuxAudioRef,
   rafScheduled |-> rafScheduled, tickCl |-> tickCl, isLinux |-> isLinux,
   ctxState |-> ctxState, now |-> now, units |-> units, endedEvt |-> endedEvt,
   gainValue |-> gainValue, reverbGain |-> reverbGain, dryGain |-> dryGain,
   resumeQ |-> resumeQ, decodes |-> decodes, elPlayQ |-> elPlayQ,
   env |-> env, suspends |-> suspends, lastOp |-> lastOp, emitted |-> emitted,
   impulse |-> impulse, requested |-> requested,
   saveJob |-> saveJob, exported |-> exported, offlineRun |-> offlineRun,
   vinyl |-> vinyl, delivered |-> delivered, subscribed |-> subscribed,
   listeners |-> listeners]

Apply(w) ==
  /\ sourceNode' = w.sourceNode /\ audioBuffer' = w.audioBuffer
  /\ filename' = w.filename /\ isPlaying' = w.isPlaying
  /\ progress' = w.progress /\ settings' = w.settings
  /\ isSaving' = w.isSaving /\ isWaveformLoading' = w.isWaveformLoading
  /\ durationRef' = w.durationRef /\ audioPositionRef' = w.audioPositionRef
  /\ lastFrameTimeRef' = w.lastFrameTimeRef
  /\ animationFrameRef' = w.animationFrameRef
  /\ playbackRateRef' = w.playbackRateRef /\ linuxAudioRef' = w.linuxAudioRef
  /\ rafScheduled' = w.rafScheduled /\ tickCl' = w.tickCl
  /\ isLinux' = w.isLinux /\ ctxState' = w.ctxState /\ now' = w.now
  /\ units' = w.units /\ endedEvt' = w.endedEvt
  /\ gainValue' = w.gainValue /\ reverbGain' = w.reverbGain
  /\ dryGain' = w.dryGain /\ resumeQ' = w.resumeQ /\ decodes' = w.decodes
  /\ elPlayQ' = w.elPlayQ /\ env' = w.env /\ suspends' = w.suspends
  /\ lastOp' = w.lastOp /\ emitted' = w.emitted
  /\ impulse' = w.impulse /\ requested' = w.requested
  /\ saveJob' = w.saveJob /\ exported' = w.exported
  /\ offlineRun' = w.offlineRun /\ vinyl' = w.vinyl
  /\ delivered' = w.delivered /\ subscribed' = w.subscribed
  /\ listeners' = w.listeners

\* ------------------------------------------------------------ data shapes
DefaultSettings ==
  [playbackRate |-> 85, volume |-> 85, reverbLevel |-> 40,
   vinylVolume |-> 50, isLooping |-> TRUE]

\* pos is the playhead in the buffer; played is the playhead had it never
\* wrapped: the offset of start() plus the source time played since.
FreeUnit ==
  [st |-> "free", buf |-> 0, loop |-> FALSE, rate |-> 0, pos |-> 0, offset |-> 0,
   played |-> 0]

NoElement ==
  [exists |-> FALSE, src |-> 0, paused |-> TRUE, currentTime |-> 0,
   playbackRate |-> 100, volume |-> 100, loop |-> FALSE, ended |-> FALSE,
   endedEvt |-> FALSE]

NoTick == [isPlaying |-> FALSE, progress |-> 0, isLooping |-> FALSE]

NoJob ==
  [st |-> "idle", buffer |-> 0, rate |-> 0, volume |-> 0, reverbLevel |-> 0,
   filename |-> 0]

NoFile == [of |-> NoJob, wav |-> <<>>]

NoRun == [stage |-> "off"]

SilentVinyl == [paused |-> TRUE, volume |-> 50, starting |-> FALSE]

UnitIds == 1..MaxUnits

Started(w) == {u \in UnitIds : w.units[u].st = "playing"}

\* The values of the last render that the handlers created by it close over.
Closure(p) ==
  [sourceNode |-> p.sourceNode, audioBuffer |-> p.audioBuffer,
   isLooping |-> p.settings.isLooping, playbackRate |-> p.settings.playbackRate,
   volume |-> p.settings.volume]

\* ------------------------------------------------- AudioBufferSourceNode
\* source.stop(); source.disconnect()
StopUnit(us, u) ==
  IF us[u].st = "playing" THEN [us EXCEPT ![u].st = "stopped"] ELSE us

\* context.createBufferSource(): units are numbered in creation order.
NewUnitId(w) ==
  CHOOSE u \in UnitIds :
    w.units[u].st = "free" /\ \A v \in UnitIds : v < u => w.units[v].st # "free"

HasFreeUnit(w) == \E u \in UnitIds : w.units[u].st = "free"

\* source.start(0, offset): a node started at or past the end of a
\* non-looping buffer ends at once.
StartedUnit(buf, loop, rate, offset) ==
  [st |-> IF ~loop /\ offset >= Duration(buf) THEN "ended" ELSE "playing",
   buf |-> buf, loop |-> loop, rate |-> rate,
   pos |-> IF loop THEN offset % Duration(buf) ELSE Min(offset, Duration(buf)),
   offset |-> offset,
   played |-> IF loop THEN offset ELSE Min(offset, Duration(buf))]

\* One second of device time for a started node.
AdvanceUnit(un) ==
  IF un.st # "playing" THEN un
  ELSE LET q == un.pos + un.rate IN
       IF q < Duration(un.buf)
       THEN [un EXCEPT !.pos = q, !.played = @ + un.rate]
       ELSE IF un.loop
       THEN [un EXCEPT !.pos = q % Duration(un.buf), !.played = @ + un.rate]
       ELSE [un EXCEPT !.pos = Duration(un.buf), !.played = Duration(un.buf),
                       !.st = "ended"]

\* ------------------------------------------------------------- stopAudio
stopAudioKeepsUnit(w, cl) ==
  [w EXCEPT !.sourceNode = 0, !.isPlaying = FALSE]

stopAudio(w, cl) ==
  IF w.isLinux
  THEN [w EXCEPT !.linuxAudioRef.paused = IF w.linuxAudioRef.exists THEN TRUE ELSE @,
                 !.isPlaying = FALSE]
  ELSE [w EXCEPT !.units = IF cl.sourceNode # 0 THEN StopUnit(@, cl.sourceNode) ELSE @,
                 !.sourceNode = 0,
                 !.isPlaying = FALSE]

\* ------------------------------------------------------------- playAudio
\* The part of playAudio after `await context.resume()`, run with the
\* closure cl of the render that created this playAudio.
playAudioBodyNoStop(w, startTime, cl) ==
  LET u == NewUnitId(w) IN
  [w EXCEPT !.units[u] = StartedUnit(cl.audioBuffer, cl.isLooping,
                                     cl.playbackRate, startTime),
            !.sourceNode = u,
            !.isPlaying = TRUE,
            !.audioPositionRef = startTime,
            !.lastFrameTimeRef = w.now]

playAudioBody(w, startTime, cl) ==
  LET w1 == stopAudio(w, cl) IN
  IF w.isLinux
  THEN LET el == w1.linuxAudioRef IN
       IF ~el.exists \/ el.src = 0 THEN w1
       ELSE [w1 EXCEPT !.linuxAudioRef =
                          [el EXCEPT !.currentTime = startTime,
                                     !.playbackRate = cl.playbackRate,
                                     !.volume = Min(cl.volume, 100),
                                     !.loop = cl.isLooping,
                                     !.paused = FALSE,
                                     !.ended = FALSE],
                       !.elPlayQ = Append(@, startTime)]
  ELSE LET u == NewUnitId(w1) IN
       [w1 EXCEPT !.units[u] = StartedUnit(cl.audioBuffer, cl.isLooping,
                                           cl.playbackRate, startTime),
                  !.endedEvt = IF StartedUnit(cl.audioBuffer, cl.isLooping,
                                              cl.playbackRate, startTime).st = "ended"
                               THEN @ \cup {u} ELSE @,
                  !.sourceNode = u,
                  !.isPlaying = TRUE,
                  !.audioPositionRef = startTime,
                  !.lastFrameTimeRef = w1.now]

playAudioAfterElPlayIfStarted(w, startTime) ==
  [w EXCEPT !.isPlaying = ~w.linuxAudioRef.paused,
            !.audioPositionRef = startTime,
            !.lastFrameTimeRef = w.now]

\* The part of playAudio after `await el.play()` (Linux).
playAudioAfterElPlay(w, startTime) ==
  [w EXCEPT !.isPlaying = TRUE,
            !.audioPositionRef = startTime,
            !.lastFrameTimeRef = w.now]

\* playAudio(startTime) called by handler `caller` of render p.  An
\* invocation that has to await context.resume() is queued with its closure.
playAudioUnchecked(w, p, startTime, caller) ==
  IF w.ctxState = "suspended"
  THEN [w EXCEPT !.resumeQ = Append(@, [kind |-> "play", caller |-> caller,
                                        startTime |-> startTime, file |-> 0,
                                        cl |-> Closure(p)])]
  ELSE playAudioBody(w, startTime, Closure(p))

playAudioNeedsImpulse(w, p, startTime, caller) ==
  IF p.audioBuffer = 0 \/ w.impulse # "loaded" THEN w
  ELSE IF w.ctxState = "suspended"
  THEN [w EXCEPT !.resumeQ = Append(@, [kind |-> "play", caller |-> caller,
                                        startTime |-> startTime, file |-> 0,
                                        cl |-> Closure(p)])]
  ELSE playAudioBody(w, startTime, Closure(p))

playAudio(w, p, startTime, caller) ==
  IF p.audioBuffer = 0 THEN w
  ELSE IF w.ctxState = "suspended"
  THEN [w EXCEPT !.resumeQ = Append(@, [kind |-> "play", caller |-> caller,
                                        startTime |-> startTime, file |-> 0,
                                        cl |-> Closure(p)])]
  ELSE playAudioBody(w, startTime, Closure(p))

\* ------------------------------------------------------ render and effects
\* useEffect(..., [settings.playbackRate]): playbackRateRef
RateRefEffect(p, w) ==
  [w EXCEPT !.playbackRateRef = w.settings.playbackRate]

\* useEffect(..., [nodes.gain, settings.volume])
VolumeEffect(p, w) ==
  [w EXCEPT !.gainValue = w.settings.volume]

\* useEffect(..., [sourceNode, settings.playbackRate])
SourceRateEffectNone(p, w) == w

SourceRateEffect(p, w) ==
  IF w.sourceNode # 0
     /\ (w.sourceNode # p.sourceNode
         \/ w.settings.playbackRate # p.settings.playbackRate)
  THEN [w EXCEPT !.units[w.sourceNode].rate = w.settings.playbackRate]
  ELSE w

\* useEffect(..., [nodes.reverbGain, nodes.dryGain, settings.reverbLevel])
ReverbEffectBroken(p, w) ==
  [w EXCEPT !.reverbGain = w.settings.reverbLevel]

ReverbEffect(p, w) ==
  [w EXCEPT !.reverbGain = w.settings.reverbLevel,
            !.dryGain = 100 - w.settings.reverbLevel]

\* The three Linux effects that mirror rate, volume and loop on the element.
LinuxSyncEffects(p, w) ==
  IF ~w.isLinux \/ ~w.linuxAudioRef.exists THEN w
  ELSE [w EXCEPT !.linuxAudioRef.playbackRate =
                     IF w.settings.playbackRate # p.settings.playbackRate
                     THEN w.settings.playbackRate ELSE @,
                 !.linuxAudioRef.volume =
                     IF w.settings.volume # p.settings.volume
                     THEN Min(w.settings.volume, 100) ELSE @,
                 !.linuxAudioRef.loop =
                     IF w.settings.isLooping # p.settings.isLooping
                     THEN w.settings.isLooping ELSE @]

TickEffectStartOnly(p, w) ==
  IF w.isPlaying /\ ~w.animationFrameRef
  THEN [w EXCEPT !.animationFrameRef = TRUE,
                 !.rafScheduled = TRUE,
                 !.tickCl = [isPlaying |-> w.isPlaying, progress |-> w.progress,
                             isLooping |-> w.settings.isLooping]]
  ELSE w

\* useEffect(..., [isPlaying, updateProgress]); updateProgress is a new
\* function when isPlaying, progress or settings.isLooping changed.
TickEffect(p, w) ==
  IF w.isPlaying = p.isPlaying /\ w.progress = p.progress
     /\ w.settings.isLooping = p.settings.isLooping
  THEN w
  ELSE IF w.isPlaying /\ ~w.animationFrameRef
  THEN [w EXCEPT !.animationFrameRef = TRUE,
                 !.rafScheduled = TRUE,
                 !.tickCl = [isPlaying |-> w.isPlaying, progress |-> w.progress,
                             isLooping |-> w.settings.isLooping]]
  ELSE IF ~w.isPlaying /\ w.animationFrameRef
  THEN [w EXCEPT !.animationFrameRef = FALSE,
                 !.rafScheduled = FALSE,
                 !.tickCl = NoTick]
  ELSE w

VinylEffectStartsAudible(p, w) ==
  IF w.isPlaying = p.isPlaying /\ w.settings.vinylVolume = p.settings.vinylVolume
  THEN w
  ELSE IF w.isPlaying \/ w.settings.vinylVolume > 0
  THEN IF w.ctxState = "suspended"
       THEN [w EXCEPT !.vinyl.volume = w.settings.vinylVolume,
                      !.vinyl.starting = TRUE]
       ELSE [w EXCEPT !.vinyl.volume = w.settings.vinylVolume,
                      !.vinyl.paused = FALSE]
  ELSE [w EXCEPT !.vinyl.volume = w.settings.vinylVolume,
                 !.vinyl.paused = TRUE]

\* useVinylSound, useEffect(..., [isPlaying, volume, context]): the element
\* takes the volume; when playing, startVinyl() awaits context.resume() if the
\* context is suspended and then calls play(); otherwise pause().
VinylEffect(p, w) ==
  IF w.isPlaying = p.isPlaying /\ w.settings.vinylVolume = p.settings.vinylVolume
  THEN w
  ELSE IF w.isPlaying
  THEN IF w.ctxState = "suspended"
       THEN [w EXCEPT !.vinyl.volume = w.settings.vinylVolume,
                      !.vinyl.starting = TRUE]
       ELSE [w EXCEPT !.vinyl.volume = w.settings.vinylVolume,
                      !.vinyl.paused = FALSE]
  ELSE [w EXCEPT !.vinyl.volume = w.settings.vinylVolume,
                 !.vinyl.paused = TRUE]

\* The continuation of a startVinyl() that awaited context.resume().
startVinylResumed(w) ==
  IF w.vinyl.starting
  THEN [w EXCEPT !.vinyl.starting = FALSE, !.vinyl.paused = FALSE]
  ELSE w

\* The render that follows a handler: p is the state the previous render
\* committed, w the state after the handler's updates.
Commit(p, w) ==
  VinylEffect(p, TickEffect(p, LinuxSyncEffects(p, ReverbEffect(p,
      SourceRateEffect(p, VolumeEffect(p, RateRefEffect(p, w)))))))

\* --------------------------------------------------------- updateProgress
\* newProgress of a tick, from the refs as updated by the tick
Fraction(pos, dur) == Min((pos * PScale) \div dur, PScale)

Publish(w, cl, newProgress) ==
  IF Abs(newProgress - cl.progress) > Epsilon
  THEN [w EXCEPT !.progress = newProgress, !.emitted = newProgress,
                 !.delivered = w.listeners]
  ELSE w

EndOfAudio(w, cl) ==
  IF ~cl.isLooping
  THEN [w EXCEPT !.audioPositionRef = 0, !.progress = 0, !.isPlaying = FALSE,
                 !.animationFrameRef = FALSE, !.rafScheduled = FALSE,
                 !.tickCl = NoTick]
  ELSE [w EXCEPT !.audioPositionRef = 0, !.progress = 0,
                 !.animationFrameRef = TRUE, !.rafScheduled = TRUE]

updateProgressWhilePlaying(w0, cl) ==
  LET w == [w0 EXCEPT !.rafScheduled = FALSE] IN
  IF w.durationRef = 0
  THEN [w EXCEPT !.animationFrameRef = FALSE, !.tickCl = NoTick]
  ELSE
    LET usesElement == w.isLinux /\ w.linuxAudioRef.exists /\ ~w.linuxAudioRef.paused
        pos == w.audioPositionRef + (w.now - w.lastFrameTimeRef) * w.playbackRateRef
        w1 == IF usesElement THEN w
              ELSE [w EXCEPT !.lastFrameTimeRef = w.now, !.audioPositionRef = pos]
        newProgress == IF usesElement
                       THEN Fraction(w.linuxAudioRef.currentTime, w.durationRef)
                       ELSE Fraction(pos, w.durationRef)
        w2 == Publish(w1, cl, newProgress)
    IN IF ~w.isLinux /\ newProgress >= PScale
       THEN EndOfAudio(w2, cl)
       ELSE IF cl.isPlaying
       THEN [w2 EXCEPT !.animationFrameRef = TRUE, !.rafScheduled = TRUE]
       ELSE [w2 EXCEPT !.tickCl = NoTick]

\* The frame callback, with the closure cl it was created in.  The request
\* that fired is consumed; animationFrameRef still holds its id.
updateProgress(w0, cl) ==
  LET w == [w0 EXCEPT !.rafScheduled = FALSE] IN
  IF w.durationRef = 0
  THEN [w EXCEPT !.animationFrameRef = FALSE, !.tickCl = NoTick]
  ELSE
    LET usesElement == w.isLinux /\ w.linuxAudioRef.exists
        pos == w.audioPositionRef + (w.now - w.lastFrameTimeRef) * w.playbackRateRef
        w1 == IF usesElement THEN w
              ELSE [w EXCEPT !.lastFrameTimeRef = w.now, !.audioPositionRef = pos]
        newProgress == IF usesElement
                       THEN Fraction(w.linuxAudioRef.currentTime, w.durationRef)
                       ELSE Fraction(pos, w.durationRef)
        w2 == Publish(w1, cl, newProgress)
    IN IF ~w.isLinux /\ newProgress >= PScale
       THEN EndOfAudio(w2, cl)
       ELSE IF cl.isPlaying
       THEN [w2 EXCEPT !.animationFrameRef = TRUE, !.rafScheduled = TRUE]
       ELSE [w2 EXCEPT !.tickCl = NoTick]

\* ------------------------------------------------------- handleFileChange
\* From `stopAudio()` up to the pending decodeAudioData.
fileChangeBody(w, file, cl) ==
  [stopAudio(w, cl) EXCEPT !.isWaveformLoading = TRUE,
                           !.decodes = @ \cup {file}]

handleFileChange(w, p, file) ==
  IF w.ctxState = "suspended"
  THEN [w EXCEPT !.resumeQ = Append(@, [kind |-> "load", caller |-> "load",
                                        startTime |-> 0, file |-> file,
                                        cl |-> Closure(p)])]
  ELSE fileChangeBody(w, file, Closure(p))

\* The Linux part of a successful decode: the element is created once,
\* then pointed at the new file and reloaded.  load() pauses the element,
\* rewinds it and sets its playbackRate to the defaultPlaybackRate, 1.
LinuxLoad(w, file) ==
  IF ~w.isLinux THEN w
  ELSE [w EXCEPT !.linuxAudioRef =
                    [(IF @.exists THEN @ ELSE [NoElement EXCEPT !.exists = TRUE])
                       EXCEPT !.src = file, !.paused = TRUE,
                              !.currentTime = 0, !.ended = FALSE,
                              !.playbackRate = 100]]

\* decodeAudioData resolved: the try block after the awaits, and finally.
decodeResolved(w, file) ==
  [LinuxLoad([w EXCEPT !.audioBuffer = file,
                       !.filename = file,
                       !.durationRef = Duration(file),
                       !.progress = 0], file)
     EXCEPT !.decodes = @ \ {file},
            !.isWaveformLoading = FALSE]

\* decodeAudioData rejected: catch, and finally.
decodeRejected(w, file) ==
  [w EXCEPT !.decodes = @ \ {file}, !.isWaveformLoading = FALSE]

\* -------------------------------------------------------------- handlers
TimeOf(fraction, dur) == (fraction * dur) \div PScale

handlePlayPauseFromStart(w, p) ==
  IF p.isPlaying THEN stopAudio(w, Closure(p))
  ELSE playAudio(w, p, 0, "toggle")

handlePlayPause(w, p) ==
  IF p.isPlaying THEN stopAudio(w, Closure(p))
  ELSE playAudio(w, p, TimeOf(p.progress, w.durationRef), "toggle")

handleMediaPlay(w, p) ==
  IF ~p.isPlaying /\ p.audioBuffer # 0
  THEN playAudio(w, p, TimeOf(p.progress, w.durationRef), "mediaPlay")
  ELSE w

handleMediaPause(w, p) ==
  IF p.isPlaying THEN stopAudio(w, Closure(p)) ELSE w

handleWaveformClick(w, p, clickedProgress) ==
  playAudio([w EXCEPT !.progress = clickedProgress], p,
            TimeOf(clickedProgress, w.durationRef), "seek")

\* useWaveformCanvas: a click at x / canvas.width, clamped to [0, 1]
handleCanvasInteractionUnclamped(w, p, x) ==
  handleWaveformClick(w, p, x)

handleCanvasInteraction(w, p, x) ==
  handleWaveformClick(w, p, Max(0, Min(PScale, x)))

\* usePlaybackState: the 'ended' listener sits on the sourceNode of the
\* last render.
handleEnded(w, p, u) ==
  IF p.sourceNode = u THEN [w EXCEPT !.isPlaying = FALSE] ELSE w

\* The continuation of one invocation suspended on context.resume().
Continue(w, t) ==
  IF t.kind = "play" THEN playAudioBody(w, t.startTime, t.cl)
  ELSE fileChangeBody(w, t.file, t.cl)

RECURSIVE RunResumed(_, _)
RunResumed(w, q) ==
  IF q = <<>> THEN w ELSE RunResumed(Continue(w, Head(q)), Tail(q))

\* Source units the queued invocations will create when they continue.
PlaysIn(q) == Cardinality({i \in 1..Len(q) : q[i].kind = "play"})

FreeUnits(w) == Cardinality({u \in UnitIds : w.units[u].st = "free"})

\* ----------------------------------------------------------------- export
\* Math.ceil(a / b) for exact positive integers
CeilDiv(a, b) == (a + b - 1) \div b

RECURSIVE Pow2Below(_)
\* the greatest power of two that is at most k (k >= 1)
Pow2Below(k) == IF k < 2 THEN 1 ELSE 2 * Pow2Below(k \div 2)

\* The IEEE-754 double of each speed-slider value 0.65, 0.70 .. 1.35 differs
\* from the decimal: 100 * 2^53 * (decimal - double), in slider order.
RateError ==
  <<-20, 40, 0, -40, 20, -20, 40, 0, -40, -80, 80, 40, 0, -40, -80>>

\* The quotient length / rate is a double: when the exact quotient is an
\* integer q and the double of the rate lies below the decimal, the quotient
\* lies above q by q * RateError / (rate * 2^53); it is rounded to the next
\* double above q when that is at least half the spacing of the doubles at q.
QuotientAbove(q, rate) ==
  q * RateError[((rate - 65) \div 5) + 1] >= rate * Pow2Below(q)

\* Math.ceil(audioBuffer.length / settings.playbackRate)
outputLength(length, rate) ==
  LET q == CeilDiv(length * 100, rate) IN
  IF (length * 100) % rate = 0 /\ QuotientAbove(q, rate) THEN q + 1 ELSE q

\* Samples are in halves (2 = 1.0); a rendered sample is in 1/FullScale.
FullScale == 40000

\* the decoded AudioBuffer of each file: one second of mono, one and a half
\* seconds of stereo
Decoded(f) ==
  IF f = 1
  THEN [numberOfChannels |-> 1, length |-> 2, sampleRate |-> 2,
        channelData |-> << <<1, -2>> >>]
  ELSE [numberOfChannels |-> 2, length |-> 3, sampleRate |-> 2,
        channelData |-> << <<2, -1, 1>>, <<0, 1, -2>> >>]

\* The offline graph of handleSave: the source at the playback rate, a dry leg
\* with gain 1 - reverbMix, a wet leg through the convolver with gain
\* reverbMix, both into the master gain volume / 100.  The impulse response is
\* one tap of 1/2; the source is read at the frame the output frame falls in.
RenderedSample(x, volume, reverbLevel) ==
  volume * (2 * (100 - reverbLevel) * x + reverbLevel * x)

renderOffline(buffer, rate, volume, reverbLevel) ==
  LET n == outputLength(buffer.length, rate) IN
  [numberOfChannels |-> buffer.numberOfChannels,
   length |-> n,
   sampleRate |-> buffer.sampleRate,
   channelData |->
     [c \in 1..buffer.numberOfChannels |->
        [i \in 1..n |->
           LET at == (((i - 1) * rate) \div 100) + 1 IN
           IF at <= buffer.length
           THEN RenderedSample(buffer.channelData[c][at], volume, reverbLevel)
           ELSE 0]]]

\* view.setUint16 / view.setUint32, little-endian
LE16(x) == << x % 256, (x \div 256) % 256 >>
LE32(x) ==
  << x % 256, (x \div 256) % 256, (x \div 65536) % 256,
     ((x \div 65536) \div 256) % 256 >>

\* writeString of the four chunk tags
TagRIFF == <<82, 73, 70, 70>>
TagWAVE == <<87, 65, 86, 69>>
TagFmt == <<102, 109, 116, 32>>
TagData == <<100, 97, 116, 97>>

WavLength(buffer) == buffer.length * buffer.numberOfChannels * 2 + 44

WavHeaderMonoBlock(buffer) ==
  TagRIFF \o LE32(WavLength(buffer) - 8) \o TagWAVE \o TagFmt
    \o LE32(16) \o LE16(1) \o LE16(buffer.numberOfChannels)
    \o LE32(buffer.sampleRate)
    \o LE32(buffer.sampleRate * 2)
    \o LE16(2) \o LE16(16)
    \o TagData \o LE32(WavLength(buffer) - 44)

WavHeader(buffer) ==
  TagRIFF \o LE32(WavLength(buffer) - 8) \o TagWAVE \o TagFmt
    \o LE32(16) \o LE16(1) \o LE16(buffer.numberOfChannels)
    \o LE32(buffer.sampleRate)
    \o LE32(buffer.sampleRate * buffer.numberOfChannels * 2)
    \o LE16(buffer.numberOfChannels * 2) \o LE16(16)
    \o TagData \o LE32(WavLength(buffer) - 44)

InterleavedByChannel(buffer) ==
  [k \in 1..(buffer.length * buffer.numberOfChannels) |->
     buffer.channelData[((k - 1) \div buffer.length) + 1]
                       [((k - 1) % buffer.length) + 1]]

\* interleaved[i * numOfChannels + channel] = channelData[i]
Interleaved(buffer) ==
  [k \in 1..(buffer.length * buffer.numberOfChannels) |->
     buffer.channelData[((k - 1) % buffer.numberOfChannels) + 1]
                       [((k - 1) \div buffer.numberOfChannels) + 1]]

\* view.setInt16 of the clamped, scaled sample: the fraction is dropped and
\* the value is stored in two's complement
Int16Of(sample) ==
  LET s == Max(0 - FullScale, Min(FullScale, sample)) IN
  IF s < 0 THEN (65536 - ((0 - s) * 32768) \div FullScale) % 65536
           ELSE (s * 32767) \div FullScale

RECURSIVE WavData(_)
WavData(samples) ==
  IF samples = <<>> THEN <<>>
  ELSE LE16(Int16Of(Head(samples))) \o WavData(Tail(samples))

audioBufferToWav(buffer) == WavHeader(buffer) \o WavData(Interleaved(buffer))

\* connectAudioNodes: the connections of the live graph, by the role of
\* each node
LiveConnections ==
  { <<"source", "dry">>, <<"dry", "master">>,
    <<"source", "convolver">>, <<"convolver", "wet">>, <<"wet", "master">>,
    <<"master", "destination">> }

OfflineGraphFullDry(job) ==
  [rate |-> job.rate, master |-> job.volume,
   dry |-> 100, wet |-> job.reverbLevel,
   connections |->
     { <<"source", "dry">>, <<"dry", "master">>,
       <<"source", "convolver">>, <<"convolver", "wet">>, <<"wet", "master">>,
       <<"master", "destination">> }]

\* The nodes handleSave creates in the offline context for an invocation:
\* the rate of the source, the three gains (in percent) and the connections.
OfflineGraph(job) ==
  [rate |-> job.rate, master |-> job.volume,
   dry |-> 100 - job.reverbLevel, wet |-> job.reverbLevel,
   connections |->
     { <<"source", "dry">>, <<"dry", "master">>,
       <<"source", "convolver">>, <<"convolver", "wet">>, <<"wet", "master">>,
       <<"master", "destination">> }]

handleSaveUnguarded(w, p) ==
  [w EXCEPT !.isSaving = TRUE,
            !.saveJob = [st |-> "rendering", buffer |-> p.audioBuffer,
                         rate |-> p.settings.playbackRate,
                         volume |-> p.settings.volume,
                         reverbLevel |-> p.settings.reverbLevel,
                         filename |-> p.filename]]

\* handleSave up to `await offlineContext.startRendering()`: the offline
\* graph is built from the buffer and the settings of the render that made
\* the handler; nodes.reverb is read through the node object.
handleSave(w, p) ==
  IF p.audioBuffer = 0 \/ w.impulse # "loaded" THEN w
  ELSE [w EXCEPT !.isSaving = TRUE,
                 !.saveJob = [st |-> "rendering", buffer |-> p.audioBuffer,
                              rate |-> p.settings.playbackRate,
                              volume |-> p.settings.volume,
                              reverbLevel |-> p.settings.reverbLevel,
                              filename |-> p.filename]]

\* the rendered buffer of the invocation
renderedBuffer(job) ==
  renderOffline(Decoded(job.buffer), job.rate, job.volume, job.reverbLevel)

\* two export requests over the same buffer with the same effect settings
SameInput(a, b) ==
  /\ a.buffer = b.buffer /\ a.rate = b.rate
  /\ a.volume = b.volume /\ a.reverbLevel = b.reverbLevel

saveRenderedTimed(w) ==
  [w EXCEPT !.exported =
              [of |-> w.saveJob,
               wav |-> audioBufferToWav(
                         renderOffline(Decoded(w.saveJob.buffer), w.saveJob.rate,
                                       w.saveJob.volume - w.now,
                                       w.saveJob.reverbLevel))],
            !.isSaving = FALSE,
            !.saveJob = NoJob]

saveRenderedLive(w) ==
  [w EXCEPT !.exported =
              [of |-> w.saveJob,
               wav |-> audioBufferToWav(
                         renderOffline(Decoded(w.audioBuffer),
                                       w.settings.playbackRate, w.settings.volume,
                                       w.settings.reverbLevel))],
            !.isSaving = FALSE,
            !.saveJob = NoJob]

\* startRendering() resolved: serialize, download, finally clear the flag
saveRendered(w) ==
  [w EXCEPT !.exported = [of |-> w.saveJob,
                          wav |-> audioBufferToWav(renderedBuffer(w.saveJob))],
            !.isSaving = FALSE,
            !.saveJob = NoJob]

saveFailedKeepsFlag(w) == [w EXCEPT !.saveJob = NoJob]

\* startRendering() rejected or the serializer threw: catch logs, finally
\* clears the flag
saveFailed(w) == [w EXCEPT !.isSaving = FALSE, !.saveJob = NoJob]

\* ------------------------------------------------------------ the sliders
SpeedSliderUnbounded(x) == x

\* <Slider min={0.65} max={1.35}>: the value for a pointer position
SpeedSlider(x) == Max(65, Min(135, x))

\* ------------------------------------------------------- onProgressUpdate
\* addEventListener of a new handler wrapping the callback of subscriber id
onProgressUpdate(w, id) == [w EXCEPT !.listeners = @ \cup {id}]

unsubscribeNothing(w, id) == w

\* the function onProgressUpdate returned: removeEventListener of the handler
unsubscribe(w, id) == [w EXCEPT !.listeners = @ \ {id}]

\* ------------------------------------------------------ the <audio> element
\* One second of the element: it plays when it is not paused and no play()
\* is still pending; at the end of the media it wraps when looping and
\* otherwise pauses and queues its 'ended' event.
AdvanceElement(el, pending, dur) ==
  IF ~el.exists \/ el.paused \/ pending \/ dur = 0 THEN el
  ELSE LET t == el.currentTime + el.playbackRate IN
       IF t < dur THEN [el EXCEPT !.currentTime = t]
       ELSE IF el.loop THEN [el EXCEPT !.currentTime = t % dur]
       ELSE [el EXCEPT !.currentTime = dur, !.paused = TRUE, !.ended = TRUE,
                       !.endedEvt = TRUE]

\* The element's 'ended' listener.
elementEnded(w) ==
  [w EXCEPT !.linuxAudioRef.endedEvt = FALSE, !.isPlaying = FALSE, !.progress = 0]

\* el.play() rejected: the element stays paused unless a later play() is
\* pending; the catch logs and playAudio continues.
elPlayRejected(w, startTime) ==
  playAudioAfterElPlay(
    [w EXCEPT !.linuxAudioRef.paused = IF w.elPlayQ = <<>> THEN TRUE ELSE @],
    startTime)

\* ---------------------------------------------------------------- actions
Base == [Cur EXCEPT !.emitted = -1, !.delivered = {}]

Done(w, op, arg) ==
  Apply([Commit(Cur, w) EXCEPT
           !.lastOp = [op |-> op, arg |-> arg, playing |-> isPlaying]])

InitHook(linux, envs) ==
  /\ sourceNode = 0 /\ audioBuffer = 0 /\ filename = 0
  /\ isPlaying = FALSE /\ progress = 0
  /\ settings = DefaultSettings
  /\ isSaving = FALSE /\ isWaveformLoading = FALSE
  /\ durationRef = 0 /\ audioPositionRef = 0 /\ lastFrameTimeRef = 0
  /\ animationFrameRef = FALSE
  /\ playbackRateRef = DefaultSettings.playbackRate
  /\ linuxAudioRef = NoElement
  /\ rafScheduled = FALSE /\ tickCl = NoTick
  /\ isLinux = linux
  /\ ctxState \in {"suspended", "running"}
  /\ now = 0
  /\ units = [u \in UnitIds |-> FreeUnit]
  /\ endedEvt = {}
  /\ gainValue = DefaultSettings.volume
  /\ reverbGain = DefaultSettings.reverbLevel
  /\ dryGain = 100 - DefaultSettings.reverbLevel
  /\ resumeQ = <<>> /\ decodes = {} /\ elPlayQ = <<>>
  /\ env \in envs /\ suspends = 0
  /\ impulse = env.impulse /\ requested = 0
  /\ lastOp = [op |-> "init", arg |-> 0, playing |-> FALSE]
  /\ emitted = -1
  /\ saveJob = NoJob /\ exported = NoFile
  /\ vinyl = SilentVinyl
  /\ delivered = {} /\ subscribed = {} /\ listeners = {}

Init == InitHook(FALSE, Envs) /\ offlineRun = NoRun

\* The user picks a file.
SelectFile ==
  \E f \in env.files :
    /\ ctxState = "suspended" => Len(resumeQ) < MaxPending
    /\ Done(handleFileChange([Base EXCEPT !.requested = f], Cur, f), "load", f)

DecodeResolved ==
  \E f \in decodes : Done(decodeResolved(Base, f), "decoded", f)

DecodeRejected ==
  \E f \in decodes :
    /\ env.decodeFails
    /\ Done(decodeRejected(Base, f), "decodeFailed", f)

\* The play/pause button.
PlayPause ==
  /\ ctxState = "suspended" => Len(resumeQ) < MaxPending
  /\ HasFreeUnit(Cur)
  /\ Len(elPlayQ) < MaxPending
  /\ Done(handlePlayPause(Base, Cur), "toggle", 0)

\* A click on the waveform canvas.
WaveformClick ==
  \E f \in env.clicks :
    /\ ctxState = "suspended" => Len(resumeQ) < MaxPending
    /\ HasFreeUnit(Cur)
    /\ Len(elPlayQ) < MaxPending
    /\ Done(handleCanvasInteraction(Base, Cur, f), "seek", f)

\* The system media keys.
MediaPlay ==
  /\ ctxState = "suspended" => Len(resumeQ) < MaxPending
  /\ HasFreeUnit(Cur)
  /\ Len(elPlayQ) < MaxPending
  /\ Done(handleMediaPlay(Base, Cur), "mediaPlay", 0)

MediaPause ==
  Done(handleMediaPause(Base, Cur), "mediaPause", 0)

\* The setters returned by the hook.
ToggleLoop ==
  /\ "isLooping" \in env.sliders
  /\ Done([Base EXCEPT !.settings.isLooping = ~@], "toggleLoop", 0)

SetVolume ==
  \E v \in Volumes :
    /\ "volume" \in env.sliders
    /\ Done([Base EXCEPT !.settings.volume = v], "setVolume", v)

\* The speed slider turns a pointer position into a value between its min
\* and max and hands it to setPlaybackRate.
SetPlaybackRate ==
  \E x \in env.rates :
    /\ "playbackRate" \in env.sliders
    /\ Done([Base EXCEPT !.settings.playbackRate = SpeedSlider(x)],
            "setPlaybackRate", SpeedSlider(x))

SetReverbLevel ==
  \E l \in ReverbLevels :
    /\ "reverbLevel" \in env.sliders
    /\ Done([Base EXCEPT !.settings.reverbLevel = l], "setReverbLevel", l)

SetVinylVolume ==
  \E v \in VinylVolumes :
    /\ "vinylVolume" \in env.sliders
    /\ Done([Base EXCEPT !.settings.vinylVolume = v], "setVinylVolume", v)

\* The host runs the queued frame callback.
Tick ==
  /\ rafScheduled
  /\ Done(updateProgress(Base, tickCl), "tick", 0)

\* One second passes on the running context.
Advance ==
  /\ ctxState = "running"
  /\ now < MaxTime
  /\ LET us == [u \in UnitIds |-> AdvanceUnit(units[u])] IN
     Done([Base EXCEPT !.now = now + 1,
                       !.units = us,
                       !.linuxAudioRef = AdvanceElement(@, elPlayQ # <<>>, durationRef),
                       !.endedEvt = @ \cup {u \in UnitIds :
                                      us[u].st = "ended" /\ units[u].st = "playing"}],
          "advance", 0)

\* The 'ended' event of a unit that played to its end is dispatched.
SourceEnded ==
  \E u \in endedEvt :
    Done(handleEnded([Base EXCEPT !.endedEvt = @ \ {u}], Cur, u), "ended", u)

\* loadImpulseResponse resolves: convolver.buffer is set.
ImpulseLoaded ==
  /\ impulse = "pending"
  /\ Done([Base EXCEPT !.impulse = "loaded"], "impulseLoaded", 0)

\* loadImpulseResponse rejects: the error is logged.
ImpulseFailed ==
  /\ impulse = "pending"
  /\ Done([Base EXCEPT !.impulse = "failed"], "impulseFailed", 0)

\* The pending context.resume() promises resolve, in call order.
ContextResumed ==
  /\ resumeQ # <<>> \/ vinyl.starting
  /\ FreeUnits(Cur) >= PlaysIn(resumeQ)
  /\ Done(startVinylResumed(
            RunResumed([Base EXCEPT !.ctxState = "running", !.resumeQ = <<>>],
                       resumeQ)),
          "resumed", 0)

\* The user agent suspends the context (autoplay policy, interruption).
ContextSuspended ==
  /\ env.uaSuspends
  /\ suspends < MaxSuspends
  /\ ctxState = "running"
  /\ Done([Base EXCEPT !.ctxState = "suspended", !.suspends = @ + 1], "suspended", 0)

\* The save button; it is disabled while isSaving.
Save ==
  /\ env.export
  /\ ~isSaving
  /\ Done(handleSave(Base, Cur), "save", 0)

\* The step records whether the previous file was exported from the same input.
RenderResolved ==
  /\ saveJob.st = "rendering"
  /\ Done(saveRendered(Base), "rendered",
          IF SameInput(exported.of, saveJob) THEN 1 ELSE 0)

RenderRejected ==
  /\ saveJob.st = "rendering"
  /\ Done(saveFailed(Base), "renderFailed", 0)

\* The oldest pending el.play() resolves: the element has started.
ElPlayResolved ==
  /\ elPlayQ # <<>>
  /\ ~linuxAudioRef.paused
  /\ Done(playAudioAfterElPlay([Base EXCEPT !.elPlayQ = Tail(@)], Head(elPlayQ)),
          "elPlayResolved", Head(elPlayQ))

\* The oldest pending el.play() rejects (autoplay policy, or a pause() or
\* load() that came before the element started).
ElPlayRejected ==
  /\ elPlayQ # <<>>
  /\ Done(elPlayRejected([Base EXCEPT !.elPlayQ = Tail(@)], Head(elPlayQ)),
          "elPlayRejected", Head(elPlayQ))

\* The element's 'ended' event is dispatched.
ElementEnded ==
  /\ linuxAudioRef.endedEvt
  /\ Done(elementEnded(Base), "elementEnded", 0)

\* A component subscribes to the progress events.
Subscribe ==
  \E id \in (1..MaxSubscribers) \ subscribed :
    /\ env.subscribes
    /\ Done(onProgressUpdate([Base EXCEPT !.subscribed = @ \cup {id}], id),
            "subscribe", id)

\* A subscriber calls the unsubscribe function it was given.
Unsubscribe ==
  \E id \in subscribed :
    Done(unsubscribe([Base EXCEPT !.subscribed = @ \ {id}], id), "unsubscribe", id)

Next ==
  \/ SelectFile \/ DecodeResolved \/ DecodeRejected
  \/ PlayPause \/ WaveformClick \/ MediaPlay \/ MediaPause
  \/ ToggleLoop \/ SetVolume \/ SetPlaybackRate \/ SetReverbLevel
  \/ SetVinylVolume
  \/ Tick \/ Advance \/ SourceEnded
  \/ ContextResumed \/ ContextSuspended
  \/ ImpulseLoaded \/ ImpulseFailed
  \/ Save \/ RenderResolved \/ RenderRejected
  \/ Subscribe \/ Unsubscribe

Spec == Init /\ [][Next]_vars

\* The step in which the promise of startRendering() settles, by
\* RenderResolved or by RenderRejected.
RenderSettled == saveJob.st = "rendering" /\ saveJob' = NoJob

\* The runs in which the user presses the save button and moves no slider,
\* with the actions the environment of these runs can take.  A promise
\* settles: a pending render is eventually delivered or rejected.
InitExport == Init /\ env.export /\ env.sliders = {}

NextExport ==
  \/ SelectFile \/ DecodeResolved
  \/ PlayPause \/ WaveformClick \/ MediaPlay \/ MediaPause
  \/ Tick \/ Advance
  \/ ContextResumed
  \/ ImpulseLoaded \/ ImpulseFailed
  \/ Save \/ RenderResolved \/ RenderRejected

SpecExport ==
  InitExport /\ [][NextExport]_vars /\ WF_saveJob(RenderSettled)

\* The runs in which the user loads a file, plays and stops it, moves the
\* speed and reverb sliders and presses the save button.
MixEnvs ==
  { [files |-> {1}, decodeFails |-> FALSE, uaSuspends |-> FALSE,
     rates |-> Rates, sliders |-> {"playbackRate", "reverbLevel"},
     clicks |-> {}, impulse |-> "loaded", export |-> TRUE,
     subscribes |-> FALSE] }

InitMix == InitHook(FALSE, MixEnvs) /\ offlineRun = NoRun

NextMix ==
  \/ SelectFile \/ DecodeResolved
  \/ PlayPause
  \/ SetPlaybackRate \/ SetReverbLevel
  \/ Advance
  \/ ContextResumed
  \/ Save \/ RenderResolved \/ RenderRejected

SpecMix == InitMix /\ [][NextMix]_vars

\* ------------------------------------------------- the bridge strategy
\* IS_LINUX: playback goes through the <audio> element.  The user loads one
\* file, plays, pauses and seeks, and moves the loop switch or else the speed
\* and volume sliders.
BridgeEnvs ==
  { [files |-> {1}, decodeFails |-> FALSE, uaSuspends |-> FALSE,
     rates |-> {}, sliders |-> {"isLooping"}, clicks |-> {500},
     impulse |-> "loaded", export |-> FALSE, subscribes |-> FALSE],
    [files |-> {1}, decodeFails |-> FALSE, uaSuspends |-> FALSE,
     rates |-> Rates, sliders |-> {"playbackRate", "volume"}, clicks |-> {500},
     impulse |-> "loaded", export |-> FALSE, subscribes |-> FALSE] }

InitBridge == InitHook(TRUE, BridgeEnvs) /\ offlineRun = NoRun

NextBridge ==
  \/ SelectFile \/ DecodeResolved
  \/ PlayPause \/ WaveformClick \/ MediaPlay \/ MediaPause
  \/ ToggleLoop \/ SetVolume \/ SetPlaybackRate
  \/ Tick \/ Advance
  \/ ContextResumed
  \/ ElPlayResolved \/ ElPlayRejected \/ ElementEnded

SpecBridge == InitBridge /\ [][NextBridge]_vars

\* ------------------------------------------------------- either strategy
\* IS_LINUX is evaluated once, when the module is loaded, from the user
\* agent string; the same user actions are then taken on either strategy.
InitStrategy ==
  (InitHook(TRUE, BridgeEnvs) \/ InitHook(FALSE, BridgeEnvs)) /\ offlineRun = NoRun

NextStrategy ==
  \/ SelectFile \/ DecodeResolved
  \/ PlayPause \/ WaveformClick \/ MediaPlay \/ MediaPause
  \/ ToggleLoop \/ SetVolume \/ SetPlaybackRate
  \/ Tick \/ Advance \/ SourceEnded
  \/ ContextResumed
  \/ ElPlayResolved \/ ElPlayRejected \/ ElementEnded

SpecStrategy == InitStrategy /\ [][NextStrategy]_vars

\* ------------------------------------------- the offline render taken alone
\* The sample values a decoded buffer cycles through, in halves.
Wave == <<0, 1, -1, 2, -2>>

SourceBuffer(n, c, sr) ==
  [numberOfChannels |-> c, length |-> n, sampleRate |-> sr,
   channelData |-> [ch \in 1..c |-> [i \in 1..n |-> Wave[((i + ch) % 5) + 1]]]]

\* handleSave is given any buffer of up to MaxFrames frames and any position
\* of the three sliders it reads.
InitOffline ==
  /\ InitHook(FALSE, Envs)
  /\ ctxState = "running" /\ env.export /\ env.sliders = {}
  /\ \E n \in 1..MaxFrames, c \in 1..2, sr \in SampleRates, r \in SliderRates,
        v \in Volumes, l \in ReverbLevels :
       offlineRun = [stage |-> "input", buffer |-> SourceBuffer(n, c, sr),
                     rate |-> r, volume |-> v, reverbLevel |-> l]

\* offlineContext.startRendering() delivers the rendered buffer
StartRendering ==
  /\ offlineRun.stage = "input"
  /\ offlineRun' =
       [stage |-> "rendered", buffer |-> offlineRun.buffer,
        rate |-> offlineRun.rate, volume |-> offlineRun.volume,
        reverbLevel |-> offlineRun.reverbLevel,
        rendered |-> renderOffline(offlineRun.buffer, offlineRun.rate,
                                   offlineRun.volume, offlineRun.reverbLevel)]
  /\ UNCHANGED <<sourceNode, audioBuffer, filename, isPlaying, progress,
                 settings, isSaving, isWaveformLoading, durationRef,
                 audioPositionRef, lastFrameTimeRef, animationFrameRef,
                 playbackRateRef, linuxAudioRef, rafScheduled, tickCl, isLinux,
                 ctxState, now, units, endedEvt, gainValue, reverbGain, dryGain,
                 impulse, resumeQ, decodes, elPlayQ, env, suspends, requested,
                 lastOp, emitted, saveJob, exported, vinyl, delivered,
                 subscribed, listeners>>

\* audioBufferToWav(renderedBuffer)
Serialize ==
  /\ offlineRun.stage = "rendered"
  /\ offlineRun' =
       [stage |-> "serialized", buffer |-> offlineRun.buffer,
        rate |-> offlineRun.rate, volume |-> offlineRun.volume,
        reverbLevel |-> offlineRun.reverbLevel,
        rendered |-> offlineRun.rendered,
        wav |-> audioBufferToWav(offlineRun.rendered)]
  /\ UNCHANGED <<sourceNode, audioBuffer, filename, isPlaying, progress,
                 settings, isSaving, isWaveformLoading, durationRef,
                 audioPositionRef, lastFrameTimeRef, animationFrameRef,
                 playbackRateRef, linuxAudioRef, rafScheduled, tickCl, isLinux,
                 ctxState, now, units, endedEvt, gainValue, reverbGain, dryGain,
                 impulse, resumeQ, decodes, elPlayQ, env, suspends, requested,
                 lastOp, emitted, saveJob, exported, vinyl, delivered,
                 subscribed, listeners>>

NextOffline == StartRendering \/ Serialize

SpecOffline == InitOffline /\ [][NextOffline]_vars

\* handleSave is given any buffer of up to MaxWavFrames frames whose samples
\* reach beyond [-1, 1], with the speed at 1, the reverb at 0 and the volume
\* at 100 or 110: the rendered samples are the source samples times 1 or 1.1.
InitWav ==
  /\ InitHook(FALSE, Envs)
  /\ ctxState = "running" /\ env.export /\ env.sliders = {}
  /\ \E n \in 1..MaxWavFrames, c \in 1..2, v \in {100, 110} :
       \E data \in [1..c -> [1..n -> LoudSamples]] :
         offlineRun = [stage |-> "input",
                       buffer |-> [numberOfChannels |-> c, length |-> n,
                                   sampleRate |-> 44100, channelData |-> data],
                       rate |-> 100, volume |-> v, reverbLevel |-> 0]

SpecWav == InitWav /\ [][NextOffline]_vars

\* -------------------------------------------------------------- properties
StartedNow == {u \in UnitIds : units[u].st = "playing"}

Stopped == ~isPlaying

Playing == isPlaying

\* The source units created by a step.
NewUnits == {u \in UnitIds : units[u].st = "free" /\ units'[u].st # "free"}

\* A step that leaves the transport as it was: state, held unit, all units,
\* the frame clock and the pending invocations.
TransportUnchanged ==
  /\ isPlaying' = isPlaying /\ sourceNode' = sourceNode /\ units' = units
  /\ rafScheduled' = rafScheduled /\ animationFrameRef' = animationFrameRef
  /\ tickCl' = tickCl /\ audioPositionRef' = audioPositionRef
  /\ lastFrameTimeRef' = lastFrameTimeRef /\ resumeQ' = resumeQ

\* C1: at most one source unit is started and not yet stopped, in every
\* reachable state, whatever the order of play, seek, toggle and load
\* requests and whether or not a request waits for the context to resume.
C1_AtMostOneStarted == Cardinality(StartedNow) <= 1

\* C2: whenever the transport is Stopped, no source unit is still started
\* and the controller holds no source unit.
C2_StoppedHoldsNoUnit == Stopped => (StartedNow = {} /\ sourceNode = 0)

\* The pending invocations q run one after the other, each one called after
\* the render that followed the one before it.
RECURSIVE Serial(_, _)
Serial(w, q) ==
  IF q = <<>> THEN w
  ELSE Serial(Commit(w, Continue(w, [Head(q) EXCEPT !.cl = Closure(w)])), Tail(q))

PlayThenSeekPending ==
  /\ Len(resumeQ) = 2
  /\ resumeQ[1].kind = "play" /\ resumeQ[1].caller \in {"toggle", "mediaPlay"}
  /\ resumeQ[2].kind = "play" /\ resumeQ[2].caller = "seek"

\* C3: when a seek was invoked while a play was still waiting to set the
\* transport state, the state after both have completed is the state that
\* running play and then seek one after the other produces: the same source
\* units, the same held unit, the same clock reference and transport state.
C3_PlaySeekSerialized ==
  [][(lastOp'.op = "resumed" /\ PlayThenSeekPending)
       => LET r == Serial([Base EXCEPT !.ctxState = "running", !.resumeQ = <<>>],
                          resumeQ)
          IN /\ units' = r.units /\ sourceNode' = r.sourceNode
             /\ isPlaying' = r.isPlaying
             /\ audioPositionRef' = r.audioPositionRef
             /\ lastFrameTimeRef' = r.lastFrameTimeRef]_vars

\* The tick of a step wraps a looping playback around to 0.
WrapStep ==
  /\ lastOp'.op = "tick" /\ tickCl.isLooping /\ durationRef # 0
  /\ Fraction(audioPositionRef + (now - lastFrameTimeRef) * playbackRateRef,
              durationRef) >= PScale

\* A step that carries out a seek or a play: the click itself, or the
\* continuation of invocations that waited for the context.
SeekStep == lastOp'.op \in {"seek", "resumed"}

\* C4: while the transport stays Playing, the recorded playback position
\* does not decrease from one step to the next, except on a seek and on a
\* loop wraparound.
C4_PositionMonotonic ==
  [][(Playing /\ Playing' /\ ~SeekStep /\ ~WrapStep) => progress' >= progress]_vars

\* C5: in every reachable state the wet gain is the reverb level and the dry
\* gain is its complement, so the two sum to 1 (100 percent).
C5_WetDryComplementary ==
  /\ reverbGain = settings.reverbLevel
  /\ dryGain = 100 - settings.reverbLevel
  /\ reverbGain + dryGain = 100

C5_Witness ==
  /\ lastOp.op = "setReverbLevel" /\ lastOp.arg = 100
  /\ reverbGain = 100 /\ dryGain = 0

\* C6: a toggle from Stopped or a media-key play with no buffer loaded
\* changes nothing: the transport stays Stopped, no source unit is created,
\* the frame clock is not armed and the position is unchanged.
C6_PlayWithoutBufferNoOp ==
  [][(lastOp'.op \in {"toggle", "mediaPlay"} /\ Stopped /\ audioBuffer = 0)
       => /\ TransportUnchanged /\ Stopped' /\ NewUnits = {}
          /\ ~rafScheduled' /\ progress' = progress]_vars

C6_Witness ==
  /\ lastOp.op = "toggle" /\ audioBuffer = 0 /\ Stopped
  /\ \A u \in UnitIds : units[u].st = "free"

\* A step that performs stop: the toggle button or the media-key pause.
StopStep == lastOp'.op \in {"toggle", "mediaPause"} /\ Playing

\* C7: stop from Playing stops the held source unit and releases it, disarms
\* the frame clock and leaves the transport Stopped; a stop issued when the
\* transport is already Stopped changes nothing.
C7_StopReleasesAndIdempotent ==
  [][/\ StopStep
          => /\ Stopped' /\ sourceNode' = 0
             /\ sourceNode # 0 => units'[sourceNode].st # "playing"
             /\ ~rafScheduled' /\ ~animationFrameRef'
     /\ (lastOp'.op = "mediaPause" /\ Stopped)
          => TransportUnchanged /\ progress' = progress]_vars

C7_Witness ==
  /\ lastOp.op = "mediaPause" /\ lastOp.playing /\ Stopped /\ sourceNode = 0
  /\ ~rafScheduled
  /\ \E u \in UnitIds : units[u].st = "stopped"

\* C8: a waveform click while Stopped, with a buffer loaded, only records
\* the clicked position: the transport stays Stopped and no source unit is
\* started.
C8_SeekWhileStoppedOnlyRecords ==
  [][(lastOp'.op = "seek" /\ lastOp'.arg \in 0..PScale
      /\ Stopped /\ audioBuffer # 0 /\ ctxState = "running")
       => /\ Stopped' /\ NewUnits = {} /\ progress' = lastOp'.arg]_vars

\* A seek runs to completion in this step: the click on a running context,
\* or the continuation of the only pending invocation, a seek.
SeekCompletes ==
  \/ /\ lastOp'.op = "seek" /\ lastOp'.arg \in 0..PScale
     /\ ctxState = "running" /\ audioBuffer # 0
  \/ /\ lastOp'.op = "resumed" /\ Len(resumeQ) = 1
     /\ resumeQ[1].kind = "play" /\ resumeQ[1].caller = "seek"

\* f x duration of that seek, in 1/100 s
SeekTarget ==
  IF lastOp'.op = "seek" THEN (lastOp'.arg * durationRef) \div PScale
  ELSE resumeQ[1].startTime

\* C9: a seek to fraction f carried out while Playing stops the held source
\* unit, starts exactly one new unit at offset f x duration, sets the clock
\* reference position to f x duration and leaves the transport Playing.
C9_SeekWhilePlaying ==
  [][(Playing /\ sourceNode # 0 /\ SeekCompletes)
       => /\ units'[sourceNode].st # "playing"
          /\ Cardinality(NewUnits) = 1
          /\ sourceNode' \in NewUnits
          /\ units'[sourceNode'].offset = SeekTarget
          /\ units'[sourceNode'].buf = audioBuffer
          /\ \A u \in UnitIds \ (NewUnits \cup {sourceNode}) : units'[u] = units[u]
          /\ audioPositionRef' = SeekTarget
          /\ Playing']_vars

C9_Witness ==
  /\ lastOp = [op |-> "seek", arg |-> 1000, playing |-> TRUE]
  /\ Playing /\ sourceNode = 2 /\ units[1].st = "stopped"
  /\ units[2].offset = Duration(audioBuffer) /\ audioPositionRef = units[2].offset

\* C10: a toggle while Playing performs stop and keeps the recorded
\* position; a toggle while Stopped with a buffer loaded starts playback at
\* the recorded position, progress x duration.
C10_ToggleResumesAtRecorded ==
  [][(lastOp'.op = "toggle")
       => /\ Playing => (Stopped' /\ sourceNode' = 0 /\ NewUnits = {}
                         /\ progress' = progress)
          /\ (Stopped /\ audioBuffer # 0 /\ ctxState = "running")
               => /\ Playing' /\ Cardinality(NewUnits) = 1
                  /\ sourceNode' \in NewUnits
                  /\ units'[sourceNode'].offset = TimeOf(progress, durationRef)
                  /\ audioPositionRef' = TimeOf(progress, durationRef)
                  /\ progress' = progress
          /\ (Stopped /\ audioBuffer # 0 /\ ctxState = "suspended")
               => /\ Len(resumeQ') = Len(resumeQ) + 1
                  /\ resumeQ'[Len(resumeQ')].startTime = TimeOf(progress, durationRef)]_vars

C10_Witness ==
  /\ lastOp.op = "toggle" /\ ~lastOp.playing /\ Playing /\ progress > 0
  /\ sourceNode = 2 /\ units[1].st = "stopped"
  /\ units[2].offset = TimeOf(progress, durationRef)
  /\ units[2].offset > 0

\* The frame callback, if it ran now, would find the position at the end.
ClockAtEnd ==
  /\ durationRef # 0
  /\ Fraction(audioPositionRef + (now - lastFrameTimeRef) * playbackRateRef,
              durationRef) >= PScale

\* Looping is disabled for the whole of the current playback: in the
\* settings, on the held source unit and in the frame callback.
LoopingOff ==
  /\ ~settings.isLooping /\ ~tickCl.isLooping
  /\ sourceNode # 0 /\ ~units[sourceNode].loop

\* A step in which one of the two end detectors fires: the 'ended' event
\* of the held unit is handled, or the frame callback finds the position at
\* the end.
EndDetected ==
  \/ lastOp'.op = "ended" /\ lastOp'.arg = sourceNode
  \/ lastOp'.op = "tick" /\ ClockAtEnd

\* C11: with looping disabled, the step in which an end detector fires
\* during playback leaves the transport Stopped and the recorded position 0.
C11_NaturalEndResets ==
  [][(Playing /\ LoopingOff /\ EndDetected) => (Stopped' /\ progress' = 0)]_vars

\* C12: with looping disabled in the settings, the frame callback that
\* finds the position at 1.0 takes the transport from Playing to Stopped,
\* and no step that leaves the transport Stopped publishes a progress event.
C12_EndStopsOnceAndSilences ==
  [][/\ (Playing /\ ~settings.isLooping /\ lastOp'.op = "tick" /\ ClockAtEnd)
          => Stopped'
     /\ (Stopped /\ Stopped') => emitted' = -1]_vars

\* C13: with looping enabled in the settings, the frame callback that finds
\* the accumulated position at or past the duration resets the position to
\* 0, leaves the transport Playing and schedules the next callback; after
\* every callback the accumulator is within the duration.
C13_LoopWrapsAndContinues ==
  [][/\ (Playing /\ settings.isLooping /\ lastOp'.op = "tick" /\ ClockAtEnd)
          => /\ audioPositionRef' = 0 /\ progress' = 0
             /\ Playing' /\ rafScheduled' /\ animationFrameRef'
     /\ (lastOp'.op = "tick" /\ durationRef # 0 /\ settings.isLooping)
          => audioPositionRef' <= durationRef]_vars

\* The held source unit loops at rate 1 after a start at 0, and so does the
\* clock.
LoopingAtUnitRate ==
  /\ Playing /\ sourceNode # 0
  /\ units[sourceNode].st = "playing" /\ units[sourceNode].loop
  /\ units[sourceNode].offset = 0 /\ units[sourceNode].rate = 100
  /\ playbackRateRef = 100 /\ tickCl.isLooping
  /\ durationRef = Duration(units[sourceNode].buf)

\* The position the clock has accumulated up to now, wrapped into the
\* buffer, is the position of the held unit.
ClockInSync ==
  (audioPositionRef + (now - lastFrameTimeRef) * playbackRateRef) % durationRef
    = units[sourceNode].pos

\* C14: with loop enabled and rate 1 after a start at 0, a frame callback
\* that wraps around keeps the overshoot: if the clock agreed with the
\* looping unit before the wrap, then after the wrap its position is again
\* the unit's position (the time played past the duration).
C14_WrapKeepsOvershoot ==
  [][(LoopingAtUnitRate /\ ClockInSync /\ lastOp'.op = "tick" /\ ClockAtEnd)
       => audioPositionRef' = units'[sourceNode].pos]_vars

\* C15: a playback-rate change while Playing is applied to the held source
\* unit in place: the unit is the same and only its rate changes, no unit
\* is created, transport state and position are unchanged, and the clock's
\* rate is the new rate; every frame callback on the direct path advances
\* the accumulator by the elapsed time times the rate in the settings.
C15_RateChangeInPlace ==
  [][/\ (lastOp'.op = "setPlaybackRate" /\ Playing /\ sourceNode # 0)
          => /\ sourceNode' = sourceNode /\ NewUnits = {}
             /\ units' = [units EXCEPT ![sourceNode].rate = lastOp'.arg]
             /\ Playing' /\ progress' = progress
             /\ audioPositionRef' = audioPositionRef
             /\ lastFrameTimeRef' = lastFrameTimeRef
             /\ playbackRateRef' = lastOp'.arg
     /\ (lastOp'.op = "tick" /\ Playing /\ durationRef # 0 /\ ~ClockAtEnd)
          => audioPositionRef'
               = audioPositionRef + (now - lastFrameTimeRef) * settings.playbackRate]_vars

C15_Witness ==
  /\ lastOp = [op |-> "setPlaybackRate", arg |-> 100, playing |-> TRUE]
  /\ Playing /\ sourceNode = 1
  /\ units[1].st = "playing" /\ units[1].rate = 100 /\ units[1].pos = 85
  /\ playbackRateRef = 100 /\ units[2].st = "free"

\* C16: in every reachable state the stored progress lies in [0, 1], and so
\* does the detail of a progress event dispatched by the last step.
C16_ProgressInUnitInterval ==
  /\ progress \in 0..PScale
  /\ emitted = -1 \/ emitted \in 0..PScale

C16_Witness ==
  /\ lastOp.op = "seek" /\ lastOp.arg = 1500
  /\ progress = PScale /\ Playing

\* C17: a seek whose fraction is outside [0, 1] is rejected: the recorded
\* position, the transport state, the held source unit and all units are as
\* before.
C17_OutOfRangeSeekRejected ==
  [][(lastOp'.op = "seek" /\ lastOp'.arg \notin 0..PScale)
       => /\ progress' = progress /\ TransportUnchanged]_vars

\* The sample buffer, its filename and duration, and the recorded position
\* are left as they are by a step.
SampleUnchanged ==
  /\ audioBuffer' = audioBuffer /\ filename' = filename
  /\ durationRef' = durationRef /\ progress' = progress

\* C18: when the decode of a newly selected file fails, the state is that
\* before the load request: the request and the failure both leave buffer,
\* filename, duration and position alone, and after a failure that directly
\* follows its request the transport is as it was before the request and a
\* unit that was held is still held.
C18_FailedDecodeRestores ==
  [][/\ lastOp'.op = "load" => SampleUnchanged
     /\ lastOp'.op = "decodeFailed" => SampleUnchanged
     /\ (lastOp'.op = "decodeFailed" /\ lastOp.op = "load" /\ lastOp.arg = lastOp'.arg)
          => /\ isPlaying' = lastOp.playing
             /\ lastOp.playing => sourceNode' # 0]_vars

\* The decode that resolves in this step belongs to a load that a later
\* load has superseded, and the decode of that later load has just
\* resolved.
LateDecode ==
  /\ lastOp.op = "decoded" /\ lastOp.arg = requested
  /\ lastOp'.op = "decoded" /\ lastOp'.arg # requested

\* C19: the result of a superseded load that resolves after the decode of
\* the load that superseded it is ignored: buffer, filename and duration
\* stay those of the file requested last.
C19_LateDecodeIgnored ==
  [][LateDecode => /\ audioBuffer' = requested /\ filename' = requested
                   /\ durationRef' = Duration(requested)]_vars

\* The convolver has no buffer, so the wet leg carries silence.
WetLegSilent == impulse # "loaded"

\* C20: while the impulse response has not loaded (pending or failed), a
\* toggle from Stopped with a buffer loaded still starts a source unit,
\* makes the transport Playing and arms the frame clock, and a frame
\* callback still advances the position; the failure of the impulse load
\* itself leaves transport and position as they are.
C20_PlaybackWithoutImpulse ==
  [][/\ (WetLegSilent /\ lastOp'.op = "toggle" /\ Stopped /\ audioBuffer # 0
         /\ ctxState = "running")
          => /\ Playing' /\ Cardinality(NewUnits) = 1 /\ sourceNode' \in NewUnits
             /\ rafScheduled'
     /\ (WetLegSilent /\ lastOp'.op = "tick" /\ Playing /\ durationRef # 0
         /\ ~ClockAtEnd)
          => /\ Playing' /\ rafScheduled'
             /\ audioPositionRef'
                  = audioPositionRef + (now - lastFrameTimeRef) * playbackRateRef
     /\ lastOp'.op = "impulseFailed"
          => /\ TransportUnchanged /\ progress' = progress
             /\ impulse' = "failed"]_vars

C20_Witness ==
  /\ impulse = "failed" /\ lastOp.op = "tick" /\ Playing
  /\ audioPositionRef > 0 /\ progress > 0
  /\ sourceNode # 0 /\ units[sourceNode].st = "playing"

\* ---------------------------------------------------------------- export
\* C21: for playback rate r and input frame count N the rendered frame count
\* is ceil(N / r), for every r of the speed slider, and it is never the input
\* frame count when r differs from 1.
C21_ExportLength ==
  offlineRun.stage = "rendered" =>
    /\ offlineRun.rendered.length =
         CeilDiv(offlineRun.buffer.length * 100, offlineRun.rate)
    /\ (offlineRun.rate # 100 =>
         offlineRun.rendered.length # offlineRun.buffer.length)

\* C21, first half alone: the rendered frame count is ceil(N / r).
C21_LengthLaw ==
  offlineRun.stage = "rendered" =>
    offlineRun.rendered.length =
      CeilDiv(offlineRun.buffer.length * 100, offlineRun.rate)

\* An export request that finds no buffer or no impulse response.
ExportRefused ==
  lastOp'.op = "save" /\ (audioBuffer = 0 \/ impulse # "loaded")

\* C22: an export requested with no buffer loaded, or with the impulse
\* response unresolved, aborts without touching playback: transport, position,
\* source unit and settings are unchanged and isSaving is not left set.
C22_RefusedExportIsNoOp ==
  [][ExportRefused =>
       (/\ TransportUnchanged
        /\ progress' = progress /\ settings' = settings
        /\ audioBuffer' = audioBuffer /\ exported' = exported
        /\ ~isSaving' /\ saveJob' = NoJob)]_vars

C22_Witness ==
  /\ lastOp.op = "save" /\ lastOp.playing
  /\ audioBuffer # 0 /\ impulse = "pending"
  /\ isPlaying /\ ~isSaving

\* C23: every export attempt that sets isSaving eventually clears it, whether
\* rendering and serialization succeed or throw.
C23_SavingEventuallyClears == isSaving ~> ~isSaving

C23_Witness ==
  /\ lastOp.op \in {"rendered", "renderFailed"}
  /\ ~isSaving /\ saveJob = NoJob

\* A step of an export: the request, or the settling of its render.
ExportStep == lastOp'.op \in {"save", "rendered", "renderFailed"}

\* The file an export hands over is the render of the buffer and the settings
\* its request captured.
FileOfJob(job) == audioBufferToWav(renderedBuffer(job))

\* C24: export and live playback do not interfere: no step of an export
\* changes the transport, the source unit, the position or the settings, and
\* the in-flight render keeps the buffer and the rate, volume and reverb mix
\* of the moment export was called, whatever is changed afterwards.
C24_ExportIndependent ==
  [][/\ ExportStep =>
          (TransportUnchanged /\ progress' = progress /\ settings' = settings)
     /\ (lastOp'.op = "save" /\ saveJob'.st = "rendering") =>
          (/\ saveJob'.buffer = audioBuffer
           /\ saveJob'.rate = settings.playbackRate
           /\ saveJob'.volume = settings.volume
           /\ saveJob'.reverbLevel = settings.reverbLevel)
     /\ (saveJob.st = "rendering" /\ saveJob'.st = "rendering") =>
          saveJob' = saveJob
     /\ lastOp'.op = "rendered" =>
          (exported'.of = saveJob /\ exported'.wav = FileOfJob(saveJob))]_vars

C24_Witness ==
  /\ lastOp.op = "rendered" /\ lastOp.playing /\ isPlaying
  /\ exported.of.volume # settings.volume
  /\ exported.wav = FileOfJob(exported.of)

RECURSIVE ReadLE(_, _, _)
ReadLE(bytes, at, n) ==
  IF n = 0 THEN 0 ELSE bytes[at + 1] + 256 * ReadLE(bytes, at + 1, n - 1)

\* C26: for a rendered buffer of C channels, F frames and sample rate S the
\* WAV output is 44 + F*C*2 bytes long, its RIFF size is the length less 8,
\* its fmt chunk declares PCM (1), C channels, rate S, byte rate S*C*2, block
\* align C*2 and 16 bits per sample, and its data chunk size is F*C*2.
C26_WavLayout ==
  offlineRun.stage = "serialized" =>
    LET C == offlineRun.rendered.numberOfChannels
        F == offlineRun.rendered.length
        S == offlineRun.rendered.sampleRate
        wav == offlineRun.wav
    IN /\ Len(wav) = 44 + F * C * 2
       /\ ReadLE(wav, 4, 4) = Len(wav) - 8
       /\ ReadLE(wav, 20, 2) = 1
       /\ ReadLE(wav, 22, 2) = C
       /\ ReadLE(wav, 24, 4) = S
       /\ ReadLE(wav, 28, 4) = S * C * 2
       /\ ReadLE(wav, 32, 2) = C * 2
       /\ ReadLE(wav, 34, 2) = 16
       /\ ReadLE(wav, 40, 4) = F * C * 2

C26_Witness ==
  /\ offlineRun.stage = "serialized"
  /\ offlineRun.rendered.numberOfChannels = 2
  /\ offlineRun.rendered.sampleRate = 44100
  /\ offlineRun.rendered.length > offlineRun.buffer.length
  /\ Len(offlineRun.wav) > 44

\* ------------------------------------------------------- bridge strategy
\* The step in which a play request on the bridge strategy completes.
BridgePlayCompletes == lastOp'.op \in {"elPlayResolved", "elPlayRejected"}

\* C27: on the bridge strategy with a file loaded, play transitions the
\* transport to Playing even when the element's own play request is rejected,
\* and every progress value a tick then publishes is the element's reported
\* position divided by the duration.
C27_BridgePlayAndClock ==
  [][/\ BridgePlayCompletes =>
          (isPlaying' /\ audioBuffer' # 0 /\ linuxAudioRef'.src # 0)
     /\ (lastOp'.op = "tick" /\ emitted' # -1) =>
          (/\ emitted' = Fraction(linuxAudioRef.currentTime, durationRef)
           /\ progress' = emitted')]_vars

C27_Witness ==
  /\ isLinux /\ lastOp.op = "tick" /\ isPlaying
  /\ emitted > 0 /\ linuxAudioRef.currentTime > 0
  /\ emitted = Fraction(linuxAudioRef.currentTime, durationRef)

\* A rejected play request has left the transport Playing over a paused element.
C27_RejectedWitness ==
  /\ isLinux /\ lastOp.op = "elPlayRejected"
  /\ isPlaying /\ linuxAudioRef.paused /\ rafScheduled

\* ---------------------------------------------------------- vinyl overlay
\* The overlay element is started: playing, or about to play once the
\* context has resumed.
OverlayStarted == ~vinyl.paused \/ vinyl.starting

\* C28: the overlay starts when the transport enters Playing only if the
\* overlay volume is greater than 0, it is stopped whenever the transport
\* enters Stopped, and with overlay volume 0 it is not started.
C28_OverlayFollowsTransport ==
  [][/\ (~isPlaying /\ isPlaying') =>
          (OverlayStarted' <=> settings'.vinylVolume > 0)
     /\ (isPlaying /\ ~isPlaying') => vinyl'.paused
     /\ (settings'.vinylVolume = 0 /\ ~OverlayStarted) => ~OverlayStarted']_vars

\* C28 for an audible overlay: entering Playing starts it, entering Stopped
\* pauses it.
C28_AudibleOverlay ==
  [][/\ (~isPlaying /\ isPlaying' /\ settings'.vinylVolume > 0) => OverlayStarted'
     /\ (isPlaying /\ ~isPlaying') => vinyl'.paused]_vars

\* ------------------------------------------------------ progress events
\* C29: a registered progress subscriber receives every published progress
\* event until its unsubscribe function is called and none afterwards; with
\* several subscribers each one receives each event, and unsubscribing one
\* does not affect the others.
C29_SubscribersReceive ==
  [][/\ emitted' # -1 => delivered' = subscribed'
     /\ emitted' = -1 => delivered' = {}
     /\ \A id \in 1..MaxSubscribers :
          (lastOp'.op = "unsubscribe" /\ lastOp'.arg = id) =>
            subscribed' = subscribed \ {id}]_vars

C29_Witness ==
  /\ lastOp.op = "tick" /\ emitted > 0
  /\ Cardinality(delivered) = 1 /\ delivered = subscribed
  /\ listeners = subscribed

\* Two subscribers receive one event.
C29_BothWitness ==
  /\ lastOp.op = "tick" /\ emitted > 0
  /\ delivered = 1..MaxSubscribers

\* ----------------------------------------------------------------- rates
AllowedRates == 65..135

TickBeforeEnd ==
  /\ lastOp'.op = "tick" /\ ~isLinux /\ Playing /\ durationRef # 0
  /\ sourceNode # 0 /\ units[sourceNode].st = "playing"
  /\ durationRef = Duration(units[sourceNode].buf)
  /\ units[sourceNode].played < durationRef /\ ~ClockAtEnd

\* C31: on the direct strategy each frame callback advances the accumulator
\* by the time since the previous callback times the rate in force at the
\* callback, and after a rate change mid-play the accumulator is the start
\* position plus the time spent at each rate times that rate, which is the
\* source time the held unit has played.
C31_PositionIntegratesRates ==
  [][TickBeforeEnd =>
       (/\ audioPositionRef'
             = audioPositionRef + (now - lastFrameTimeRef) * playbackRateRef
        /\ audioPositionRef' = units[sourceNode].played)]_vars

\* C31, the first half alone: the delta of a callback is multiplied by the
\* rate in force at the callback.
C31_TickUsesRateInForce ==
  [][TickBeforeEnd =>
       (/\ audioPositionRef'
             = audioPositionRef + (now - lastFrameTimeRef) * playbackRateRef
        /\ playbackRateRef = settings.playbackRate
        /\ lastFrameTimeRef' = now)]_vars

\* C31, in the runs over one file in which the speed slider is not moved.
C31_SingleRate ==
  [][(TickBeforeEnd /\ env.rates = {} /\ Cardinality(env.files) = 1) =>
       audioPositionRef' = units[sourceNode].played]_vars

\* ---------------------------------------------------------- the tick loop
\* C32: once the transport is Stopped (by a user stop, a natural end or a
\* file load) no frame callback remains scheduled after the step that
\* stopped it, so that until the next play no frame callback runs, changes
\* the position or publishes a progress event.
C32_TickLoopCancelled ==
  [][/\ Stopped' => (~rafScheduled' /\ ~animationFrameRef')
     /\ (Stopped /\ lastOp'.op = "tick") =>
          (/\ audioPositionRef' = audioPositionRef
           /\ progress' = progress /\ emitted' = -1)
     /\ (Stopped /\ Stopped') => emitted' = -1]_vars

\* A user stop has cancelled the running loop.
C32_Witness ==
  /\ lastOp.op \in {"toggle", "mediaPause"} /\ lastOp.playing
  /\ Stopped /\ progress > 0 /\ now > 0
  /\ ~rafScheduled /\ ~animationFrameRef

\* The loop has ended with a natural end.
C32_EndWitness ==
  /\ lastOp.op \in {"tick", "ended"} /\ lastOp.playing
  /\ Stopped /\ ~rafScheduled /\ ~animationFrameRef

\* A file load has cancelled the running loop.
C32_LoadWitness ==
  /\ lastOp.op = "load" /\ lastOp.playing
  /\ Stopped /\ ~rafScheduled /\ ~animationFrameRef

\* -------------------------------------------------- the publish threshold
\* The fraction a frame callback run now would compute.
FractionNow ==
  IF isLinux /\ linuxAudioRef.exists
  THEN Fraction(linuxAudioRef.currentTime, durationRef)
  ELSE Fraction(audioPositionRef + (now - lastFrameTimeRef) * playbackRateRef,
                durationRef)

\* C33: a frame callback publishes a progress event and stores the new
\* fraction only when the fraction differs from the stored progress by more
\* than 0.001; a callback whose fraction moved by 0.001 or less publishes
\* nothing; every published event goes to all registered subscribers.
C33_PublishOnlyBeyondEpsilon ==
  [][(lastOp'.op = "tick" /\ durationRef # 0) =>
       (/\ emitted' # -1 <=> Abs(FractionNow - progress) > Epsilon
        /\ emitted' # -1 => (emitted' = FractionNow /\ delivered' = subscribed')
        /\ (emitted' # -1 /\ ~ClockAtEnd) => progress' = emitted')]_vars

\* C33 with the progress the running callback was created with in the place
\* of the stored progress.
C33_ThresholdOnCallbackProgress ==
  [][(lastOp'.op = "tick" /\ durationRef # 0) =>
       (/\ emitted' # -1 <=> Abs(FractionNow - tickCl.progress) > Epsilon
        /\ emitted' # -1 => (emitted' = FractionNow /\ delivered' = subscribed')
        /\ (emitted' # -1 /\ ~ClockAtEnd) => progress' = emitted')]_vars

\* ------------------------------------------------- the source of the clock
\* The fraction the delta-time accumulator would give a frame callback now.
AccumulatorFraction ==
  Fraction(audioPositionRef + (now - lastFrameTimeRef) * playbackRateRef,
           durationRef)

\* C34: the output strategy is fixed for the process, and every frame
\* callback derives the position from one source: on the bridge strategy
\* from the element's reported position, leaving the accumulator alone; on
\* the direct strategy from the delta-time accumulator, with no element.
C34_SinglePositionSource ==
  [][/\ isLinux' = isLinux
     /\ (lastOp'.op = "tick" /\ durationRef # 0) =>
          IF isLinux
          THEN /\ linuxAudioRef.exists
               /\ audioPositionRef' = audioPositionRef
               /\ lastFrameTimeRef' = lastFrameTimeRef
               /\ emitted' # -1 =>
                    emitted' = Fraction(linuxAudioRef.currentTime, durationRef)
          ELSE /\ ~linuxAudioRef.exists
               /\ lastFrameTimeRef' = now
               /\ emitted' # -1 => emitted' = AccumulatorFraction]_vars

\* A callback on the bridge strategy has published the element's position
\* where the accumulator would have given another.
C34_Witness ==
  /\ isLinux /\ lastOp.op = "tick" /\ emitted > 0
  /\ emitted = Fraction(linuxAudioRef.currentTime, durationRef)
  /\ emitted # AccumulatorFraction

\* A callback on the direct strategy has published the accumulator.
C34_DirectWitness ==
  /\ ~isLinux /\ lastOp.op = "tick" /\ emitted > 0
  /\ audioPositionRef > 0 /\ lastFrameTimeRef = now /\ now > 0

\* ------------------------------------------------- mirroring on the bridge
\* The operations the element has to follow.
MirroredStep ==
  lastOp'.op \in {"toggle", "mediaPlay", "mediaPause", "seek", "setPlaybackRate",
                  "setVolume", "toggleLoop", "elPlayResolved", "elPlayRejected"}

\* No play request is under way: none awaits context.resume() or el.play().
NoPlayPending == resumeQ = <<>> /\ elPlayQ = <<>>

\* C35: on the bridge strategy, once the element exists, after any sequence
\* of play, stop, seek, setPlaybackRate, setVolume and toggleLoop the element
\* has the rate of the settings, the loop flag of the settings and the volume
\* min(volume, 1), it is paused exactly when the transport is Stopped, and a
\* seek sets its position to the seek target.
C35_ElementMirrorsEngine ==
  [][(isLinux /\ linuxAudioRef.exists /\ MirroredStep /\ NoPlayPending') =>
       (/\ linuxAudioRef'.playbackRate = settings'.playbackRate
        /\ linuxAudioRef'.loop = settings'.isLooping
        /\ linuxAudioRef'.volume = Min(settings'.volume, 100)
        /\ linuxAudioRef'.paused <=> Stopped'
        /\ (lastOp'.op = "seek" /\ ctxState = "running") =>
             linuxAudioRef'.currentTime
               = TimeOf(Max(0, Min(PScale, lastOp'.arg)), durationRef))]_vars

\* C35, what each operation does to the element: a setter that changes its
\* setting writes its own attribute, a play or seek writes the rate, loop flag and volume of the
\* settings and the start position and starts the element, a stop pauses it.
C35_OperationsReachElement ==
  [][(isLinux /\ linuxAudioRef.exists /\ ctxState = "running") =>
       (/\ (lastOp'.op = "setPlaybackRate"
              /\ settings'.playbackRate # settings.playbackRate) =>
             linuxAudioRef'.playbackRate = settings'.playbackRate
        /\ (lastOp'.op = "setVolume" /\ settings'.volume # settings.volume) =>
             linuxAudioRef'.volume = Min(settings'.volume, 100)
        /\ lastOp'.op = "toggleLoop" => linuxAudioRef'.loop = settings'.isLooping
        /\ (lastOp'.op = "seek" \/ (lastOp'.op \in {"toggle", "mediaPlay"} /\ Stopped)) =>
             (/\ linuxAudioRef'.playbackRate = settings.playbackRate
              /\ linuxAudioRef'.loop = settings.isLooping
              /\ linuxAudioRef'.volume = Min(settings.volume, 100)
              /\ ~linuxAudioRef'.paused)
        /\ lastOp'.op = "seek" =>
             linuxAudioRef'.currentTime
               = TimeOf(Max(0, Min(PScale, lastOp'.arg)), durationRef)
        /\ (lastOp'.op \in {"toggle", "mediaPause"} /\ Playing) =>
             (linuxAudioRef'.paused /\ Stopped'))]_vars

\* ------------------------------------------------------ the offline graph
\* C36: the offline session of an export has the topology and the parameters
\* of the live graph at the time export is called: the source feeds a dry leg
\* with gain 1 - mix and a wet leg through the convolver with gain mix, both
\* into a master gain equal to the volume setting, and the source rate is the
\* rate setting (and the rate of the source unit playing live, if any).
C36_OfflineGraphAsLive ==
  [][(lastOp'.op = "save" /\ saveJob'.st = "rendering") =>
       LET g == OfflineGraph(saveJob') IN
       /\ g.connections = LiveConnections
       /\ g.master = gainValue /\ g.master = settings.volume
       /\ g.wet = reverbGain /\ g.wet = settings.reverbLevel
       /\ g.dry = dryGain /\ g.dry = 100 - settings.reverbLevel
       /\ g.rate = settings.playbackRate
       /\ \A u \in StartedNow : u = sourceNode => g.rate = units[u].rate
       /\ \A i \in 1..Len(Wave) :
            RenderedSample(Wave[i], saveJob'.volume, saveJob'.reverbLevel)
              = g.master * (2 * g.dry * Wave[i] + g.wet * Wave[i])]_vars

C36_Witness ==
  /\ lastOp.op = "save" /\ lastOp.playing /\ saveJob.st = "rendering"
  /\ saveJob.rate = 100 /\ saveJob.reverbLevel = 100 /\ dryGain = 0
  /\ now > 0
  /\ sourceNode # 0 /\ units[sourceNode].st = "playing"
  /\ units[sourceNode].rate = saveJob.rate

\* ---------------------------------------------------- the WAV data chunk
\* the signed 16-bit little-endian number stored at sample index k of the
\* data chunk
StoredSample(wav, k) ==
  LET x == ReadLE(wav, 44 + 2 * k, 2) IN IF x >= 32768 THEN x - 65536 ELSE x

\* C37: in the data chunk the sample of frame i and channel c is stored at
\* sample index i*C + c as a little-endian signed 16-bit value; a sample is
\* clamped to [-1, 1] first, so that every stored value lies in
\* [-32768, 32767], -1 (and below) is stored as -32768, 0 as 0 and 1 (and
\* above) as 32767; between them a negative sample is scaled by 32768 and a
\* positive one by 32767, the fraction dropped.
C37_WavSamples ==
  offlineRun.stage = "serialized" =>
    LET buf == offlineRun.rendered
        C == buf.numberOfChannels
        wav == offlineRun.wav
    IN /\ Len(wav) = 44 + 2 * buf.length * C
       /\ \A i \in 0..(buf.length - 1), c \in 0..(C - 1) :
            LET x == buf.channelData[c + 1][i + 1]
                v == StoredSample(wav, i * C + c)
            IN /\ v \in -32768..32767
               /\ wav[44 + 2 * (i * C + c) + 1] = v % 256
               /\ x <= 0 - FullScale => v = -32768
               /\ x = 0 => v = 0
               /\ x >= FullScale => v = 32767
               /\ (0 <= x /\ x <= FullScale) =>
                    (v * FullScale <= x * 32767 /\ x * 32767 < (v + 1) * FullScale)
               /\ (0 - FullScale <= x /\ x < 0) =>
                    ((0 - v) * FullScale <= (0 - x) * 32768
                     /\ (0 - x) * 32768 < (1 - v) * FullScale)

\* Two channels of two frames that differ, with a sample above 1 and a
\* sample of exactly -1.
C37_Witness ==
  /\ offlineRun.stage = "serialized"
  /\ offlineRun.rendered.numberOfChannels = 2 /\ offlineRun.rendered.length = 2
  /\ offlineRun.rendered.channelData[1][2] > FullScale
  /\ offlineRun.rendered.channelData[2][1] = 0 - FullScale
  /\ StoredSample(offlineRun.wav, 2) = 32767
  /\ StoredSample(offlineRun.wav, 1) = -32768

\* ------------------------------------------------------- a completed load
\* After the step, the load of file f has completed as the claim requires.
LoadCompleted(f) ==
  /\ audioBuffer' = f /\ filename' = f /\ durationRef' = Duration(f)
  /\ progress' = 0 /\ Stopped'
  /\ \A u \in UnitIds : units'[u].st = "playing" => units'[u].buf = f

\* C38: when a file load completes successfully the buffer, duration and
\* filename are those of the new file, the position is 0, the transport is
\* Stopped and no source unit bound to the previous buffer is still playing,
\* also when play or seek was requested while the decode was pending.
C38_LoadReplacesPlayback ==
  [][lastOp'.op = "decoded" => LoadCompleted(lastOp'.arg)]_vars

\* C38 when nothing was played since the load was requested.
C38_QuietLoad ==
  [][(lastOp'.op = "decoded" /\ Stopped /\ StartedNow = {} /\ resumeQ = <<>>)
       => LoadCompleted(lastOp'.arg)]_vars

\* ------------------------------------------------------ the late overlay
\* C39: the overlay element is never left playing while the transport is
\* Stopped, also when the transport became Stopped while the overlay's start
\* was still awaiting the resume of the audio context.
C39_OverlayPausedWhenStopped == Stopped => vinyl.paused

\* C39 without a pending start: from a state in which the overlay is paused
\* if the transport is Stopped, a step taken while no start of the overlay
\* awaits the resume leads to such a state.
C39_NoPendingStart ==
  [][(~vinyl.starting /\ C39_OverlayPausedWhenStopped /\ Stopped')
       => vinyl'.paused]_vars

\* ------------------------------------------------------------ the setters
SetterStep ==
  lastOp'.op \in {"setVolume", "setPlaybackRate", "setReverbLevel",
                  "setVinylVolume", "toggleLoop"}

\* the setting each setter writes
OwnSetting(op) ==
  CASE op = "setVolume" -> "volume"
    [] op = "setPlaybackRate" -> "playbackRate"
    [] op = "setReverbLevel" -> "reverbLevel"
    [] op = "setVinylVolume" -> "vinylVolume"
    [] op = "toggleLoop" -> "isLooping"

\* C40: each setter (setVolume, setPlaybackRate, setReverbLevel,
\* setVinylVolume, toggleLoop) changes its own setting and no other, and
\* leaves the transport state, the position and the active source unit as
\* they were, in Playing and in Stopped; an overlay volume change while
\* Stopped starts nothing, and the overlay element always carries the overlay
\* volume of the settings, so that it is in force at the next play.
C40_SettersChangeOneSetting ==
  [][SetterStep =>
       (/\ \A k \in DOMAIN settings :
             k # OwnSetting(lastOp'.op) => settings'[k] = settings[k]
        /\ settings'[OwnSetting(lastOp'.op)]
             = IF lastOp'.op = "toggleLoop" THEN ~settings.isLooping
               ELSE lastOp'.arg
        /\ isPlaying' = isPlaying /\ progress' = progress
        /\ audioPositionRef' = audioPositionRef
        /\ sourceNode' = sourceNode /\ NewUnits = {}
        /\ \A u \in UnitIds :
             units'[u].st = units[u].st /\ units'[u].pos = units[u].pos
        /\ vinyl'.volume = settings'.vinylVolume
        /\ Stopped =>
             (/\ vinyl.paused => vinyl'.paused
              /\ vinyl'.starting = vinyl.starting
              /\ ~rafScheduled' /\ StartedNow' = StartedNow))]_vars

\* The overlay volume was changed while Stopped: nothing started.
C40_Witness ==
  /\ lastOp = [op |-> "setVinylVolume", arg |-> 0, playing |-> FALSE]
  /\ Stopped /\ audioBuffer # 0 /\ now > 0
  /\ vinyl.paused /\ ~vinyl.starting /\ vinyl.volume = 0
  /\ settings = [DefaultSettings EXCEPT !.vinylVolume = 0]

\* The play after it runs the overlay at the changed volume.
C40_NextPlayWitness ==
  /\ lastOp.op = "toggle" /\ ~lastOp.playing /\ Playing
  /\ ~vinyl.paused /\ vinyl.volume = 0 /\ settings.vinylVolume = 0

\* A setter was called while Playing.
C40_PlayingWitness ==
  /\ lastOp = [op |-> "setReverbLevel", arg |-> 100, playing |-> TRUE]
  /\ Playing /\ sourceNode # 0 /\ units[sourceNode].st = "playing"
  /\ reverbGain = 100 /\ settings.volume = 110
====
